---- MODULE Spec2Model ----
(***************************************************************************)
(* The Reynolds Creek input-building notebook (src/unnamed/part_000) as a  *)
(* state machine.  The notebook's cells are run top to bottom; an          *)
(* exception raised by a statement ends the run (the kernel stops at the   *)
(* first failing cell) and leaves every assignment made before it.         *)
(*                                                                         *)
(* Encodings.  Floating-point values are fixed-point integers:             *)
(*   precipitation read from the CSV : hundredths of an inch               *)
(*   precipitation stored            : micrometres (1/1000 mm)             *)
(*   temperature                     : tenths of a degree Celsius          *)
(*   latitude, longitude, elevation  : hundredths                          *)
(* np.nan is the integer NaN, which no arithmetic on the inputs produces.  *)
(* A timestamp is its proleptic Gregorian day ordinal.                     *)
(* An array of shape (T, 1, 1) is the sequence of its T cells [k, 0, 0];   *)
(* an array of shape (1, 1) is the one-element sequence of its cell [0, 0].*)
(***************************************************************************)
EXTENDS Integers, Sequences, FiniteSets, TLC

VARIABLES
    pc,         \* the next statement group of the notebook to execute
    err,        \* "" or the exception that ended the run
    csv,        \* the CSV exports read so far: path -> file description
    nc,         \* the NetCDF files on disk: path -> dataset written there
    dates,      \* notebook variable dates (pd.DatetimeIndex)
    shape,      \* notebook variable shape; <<T, 1, 1>>
    met_data,   \* notebook variable met_data (xr.Dataset)
    domain,     \* notebook variable domain (xr.Dataset)
    state,      \* notebook variable state (xr.Dataset)
    df,         \* notebook variable df: the path of the export it was read from
    prec_vals,  \* notebook variable prec_vals
    tmin_vals,  \* notebook variable tmin_vals
    tmax_vals,  \* notebook variable tmax_vals
    params,     \* notebook variable params (the driver's configuration)
    ms,         \* the driver: the input datasets it opened, once run
    run_out,    \* scripting notebook: variable out (the first run's output)
    lw,         \* scripting notebook: loop variable lw, as its index in lw_types
    lw_ds,      \* scripting notebook: variable ds (the output just loaded)
    lw_vals,    \* scripting notebook: dictionary lw_vals
    spt,        \* scripting notebook: loop variable spt, as its index in spt_vals
    rs,         \* scripting notebook: loop variable rs, as its index in rs_vals
    output,     \* scripting notebook: variable output (the output just loaded)
    sw_vals     \* scripting notebook: dictionary sw_vals

\* the variables only the data-assembly notebook uses
assembly_vars == <<csv, shape, met_data, domain, state, df, prec_vals,
                   tmin_vals, tmax_vals>>

\* the variables only the scripting notebook uses
sweep_vars == <<run_out, lw, lw_ds, lw_vals, spt, rs, output, sw_vals>>

vars == <<pc, err, csv, nc, dates, shape, met_data, domain, state, df,
          prec_vals, tmin_vals, tmax_vals, params, ms,
          run_out, lw, lw_ds, lw_vals, spt, rs, output, sw_vals>>

----------------------------------------------------------------------------
(* Bounds of the explored inputs *)

\* row counts of the CSV exports are explored within RowSlack of the counts
\* the notebook's slices and time axes make critical
RowSlack == 1

\* the growth per row of the input series explored (per row squared, for the
\* cumulative precipitation)
Rates == {0, 1}

----------------------------------------------------------------------------
(* Floating point *)

NaN == 0 - 1000000000

IsNaN(x) == x = NaN

\* mutant: a negative difference is clamped to zero
FSubClamped(a, b) ==
    IF IsNaN(a) \/ IsNaN(b) THEN NaN ELSE IF a < b THEN 0 ELSE a - b

\* a - b on floats: NaN if either operand is NaN
FSub(a, b) == IF IsNaN(a) \/ IsNaN(b) THEN NaN ELSE a - b

\* the factor of "* 25.4", in tenths
MMPerInchTenths == 254

\* mutant: the conversion is left out
ToMMOmitted(x) == x

\* x * 25.4, from hundredths of an inch to micrometres
ToMM(x) == IF IsNaN(x) THEN NaN ELSE x * MMPerInchTenths

----------------------------------------------------------------------------
(* Calendar: pd.date_range over 'M/D/YYYY' strings *)

IsLeap(y) == (y % 4 = 0 /\ y % 100 # 0) \/ y % 400 = 0

\* mutant: every February has 29 days
DaysInMonthLeapFeb(y, m) ==
    IF m = 2 THEN 29
    ELSE IF m \in {4, 6, 9, 11} THEN 30 ELSE 31

DaysInMonth(y, m) ==
    IF m = 2 THEN (IF IsLeap(y) THEN 29 ELSE 28)
    ELSE IF m \in {4, 6, 9, 11} THEN 30 ELSE 31

RECURSIVE DaysBeforeMonth(_, _)
DaysBeforeMonth(y, m) ==
    IF m = 1 THEN 0 ELSE DaysBeforeMonth(y, m - 1) + DaysInMonth(y, m - 1)

\* the day ordinal of a date (1 = 1 January of year 1)
ToOrdinal(y, m, d) ==
    LET p == y - 1
    IN  365 * p + (p \div 4) - (p \div 100) + (p \div 400)
        + DaysBeforeMonth(y, m) + d

\* mutant: the literal is read day first
ParseDateDayFirst(lit) == ToOrdinal(lit[3], lit[2], lit[1])

\* a date literal 'a/b/c' is month/day/year
ParseDate(lit) == ToOrdinal(lit[3], lit[1], lit[2])

\* mutant: the end date is excluded
date_rangeExclusive(start, end) ==
    LET a == ParseDate(start)
        b == ParseDate(end)
    IN  [k \in 1 .. (IF b >= a THEN b - a ELSE 0) |-> a + k - 1]

\* pd.date_range(start, end): every day from start to end, both included
date_range(start, end) ==
    LET a == ParseDate(start)
        b == ParseDate(end)
    IN  [k \in 1 .. (IF b >= a THEN b - a + 1 ELSE 0) |-> a + k - 1]

----------------------------------------------------------------------------
(* Python sequences *)

\* s[k:] for an integer k of either sign
SliceFrom(s, k) ==
    LET n == Len(s)
        lo == IF k < 0 THEN (IF n + k < 0 THEN 0 ELSE n + k)
                       ELSE (IF k > n THEN n ELSE k)
    IN  SubSeq(s, lo + 1, n)

\* mutant: each value minus the first one, not the one before it
diffFromFirst(s) ==
    [i \in 1 .. Len(s) |-> IF i = 1 THEN NaN ELSE FSub(s[i], s[1])]

\* mutant: the undefined first difference is filled with 0
diffFilled(s) ==
    [i \in 1 .. Len(s) |-> IF i = 1 THEN 0 ELSE FSub(s[i], s[i - 1])]

\* Series.diff(): NaN first, then each value minus the one before it
diff(s) ==
    [i \in 1 .. Len(s) |-> IF i = 1 THEN NaN ELSE FSub(s[i], s[i - 1])]

\* s * 25.4, elementwise
TimesMMPerInch(s) == [i \in 1 .. Len(s) |-> ToMM(s[i])]

\* mutant: the arrays are created zeroed
fullZeros(shp, v) == [k \in 1 .. shp[1] |-> 0]

\* np.full(shape, np.nan)[:, 0, 0]
full(shp, v) == [k \in 1 .. shp[1] |-> v]

\* mutant: no broadcasting
CanAssignExact(arr, vals) == Len(vals) = Len(arr)

\* whether "arr[:, 0, 0] = vals" is accepted: equal lengths, or a length-one
\* right-hand side, which numpy broadcasts
CanAssign(arr, vals) == Len(vals) = Len(arr) \/ Len(vals) = 1

\* arr[:, 0, 0] after "arr[:, 0, 0] = vals"
Assigned(arr, vals) ==
    IF Len(vals) = Len(arr) THEN vals
    ELSE [k \in 1 .. Len(arr) |-> vals[1]]

----------------------------------------------------------------------------
(* The CSV exports and pd.read_csv *)

PrecPath2010 == "./reynolds_creek_data/daily/precip_2010.csv"
TempPath2010 == "./reynolds_creek_data/daily/temp_2010.csv"
PrecPath2009 == "./reynolds_creek_data/daily/precip_2009.csv"
TempPath2009 == "./reynolds_creek_data/daily/temp_2009.csv"

\* the column labels the notebook looks up; the trailing space is part of them
PrecLabel == "PREC.I-1 (in) "
TMinLabel == "TMIN.D-1 (degC) "
TMaxLabel == "TMAX.D-1 (degC) "

\* the header row of an export: as the notebook expects it, with the labels'
\* trailing space trimmed, or (temperature) without the TMAX column
Header(kind, variant) ==
    IF kind = "prec"
    THEN (IF variant = "export" THEN <<"Date", PrecLabel>>
                                ELSE <<"Date", "PREC.I-1 (in)">>)
    ELSE (IF variant = "export" THEN <<"Date", TMaxLabel, TMinLabel>>
          ELSE IF variant = "trimmed"
               THEN <<"Date", "TMAX.D-1 (degC)", "TMIN.D-1 (degC)">>
               ELSE <<"Date", TMinLabel>>)

\* the cumulative precipitation pattern explored (hundredths of an inch),
\* repeated along the file: it rises, stalls, and resets where it repeats
PrecPatterns == {<<0, 50, 50, 120>>}

\* data row i (1-based) of an export
DataRow(f, i) ==
    IF f.kind = "prec"
    THEN <<i, f.rate * i * i + f.pat[((i - 1) % Len(f.pat)) + 1]>>
    ELSE LET tmin == (0 - 50) + f.rate * i
         IN  IF f.header = "no_tmax" THEN <<i, tmin>>
                                     ELSE <<i, tmin + 100, tmin>>

\* the lines of an export: two lines of metadata, the header row, the data
Lines(f) ==
    <<  <<"# site">>, <<"# units">>, Header(f.kind, f.header) >>
    \o [i \in 1 .. f.rows |-> DataRow(f, i)]

\* the exports a path may hold, for the row counts in rows
PrecFiles(rows) ==
    [exists : {TRUE}, kind : {"prec"}, header : {"export"}, rows : rows,
     rate : Rates, pat : PrecPatterns]
    \cup [exists : {TRUE}, kind : {"prec"}, header : {"trimmed"},
          rows : {2}, rate : {0}, pat : {<<0>>}]
    \cup [exists : {FALSE}, kind : {"prec"}, header : {"export"},
          rows : {0}, rate : {0}, pat : {<<0>>}]

TempFiles(rows) ==
    [exists : {TRUE}, kind : {"temp"}, header : {"export"}, rows : rows,
     rate : Rates, pat : {<<0>>}]
    \cup [exists : {TRUE}, kind : {"temp"}, header : {"trimmed", "no_tmax"},
          rows : {2}, rate : {0}, pat : {<<0>>}]
    \cup [exists : {FALSE}, kind : {"temp"}, header : {"export"},
          rows : {0}, rate : {0}, pat : {<<0>>}]

\* pd.read_csv(path, skiprows=skip): the lines whose 0-based index is in skip
\* are dropped, the first line left is the header, the others are the rows
read_csv(f, skip) ==
    LET lines == Lines(f)
        keep  == {i \in 1 .. Len(lines) : (i - 1) \notin skip}
        first == CHOOSE i \in keep : \A j \in keep : i <= j
    IN  [columns |-> lines[first],
         data    |-> [i \in 1 .. Cardinality(keep) - 1 |-> lines[first + i]]]

HasColumn(frame, label) ==
    \E j \in 1 .. Len(frame.columns) : frame.columns[j] = label

\* frame[label]: the values of the column, in row order
Column(frame, label) ==
    LET j == CHOOSE j \in 1 .. Len(frame.columns) : frame.columns[j] = label
    IN  [i \in 1 .. Len(frame.data) |-> frame.data[i][j]]

\* mutant: only the first metadata row is skipped
SkipRowsOne == {0}

\* the two metadata rows the notebook skips
SkipRows == {0, 1}

----------------------------------------------------------------------------
(* xr.Dataset *)

lats == <<4317>>
lons == <<0 - 11651>>
elev == 170690

NoVars == [v \in {} |-> <<>>]

\* xr.Dataset(coords=coords)
Dataset(coords) == [coords |-> coords, data |-> NoVars]

\* ds[name] = array
SetVar(ds, name, arr) ==
    [ds EXCEPT !.data = [v \in (DOMAIN @) \cup {name} |->
                            IF v = name THEN arr ELSE @[v]]]

VarNames == {"prec", "t_min", "t_max"}

\* for varname in ['prec', 't_min', 't_max']: ds[varname] = np.full(shape, nan)
WithNaNArrays(ds, shp) ==
    [ds EXCEPT !.data = [v \in (DOMAIN @) \cup VarNames |->
                            IF v \in VarNames THEN full(shp, NaN) ELSE @[v]]]

ForcingPath == "./input/rc_forcing.nc"
DomainPath  == "./input/rc_domain.nc"
StatePath   == "./input/rc_state.nc"

\* ds.to_netcdf(path)
to_netcdf(disk, path, ds) ==
    [p \in (DOMAIN disk) \cup {path} |-> IF p = path THEN ds ELSE disk[p]]

----------------------------------------------------------------------------
(* The notebook *)

\* a notebook variable not yet assigned
Unset == [v \in {} |-> <<>>]

\* no variable of the scripting notebook is assigned
SweepUnset ==
    /\ run_out = Unset
    /\ lw = 0
    /\ lw_ds = Unset
    /\ lw_vals = Unset
    /\ spt = 0
    /\ rs = 0
    /\ output = Unset
    /\ sw_vals = Unset

Init ==
    /\ pc = "forcing_coords"
    /\ err = ""
    /\ csv = Unset
    /\ nc = Unset
    /\ dates = <<>>
    /\ shape = <<>>
    /\ met_data = Unset
    /\ domain = Unset
    /\ state = Unset
    /\ df = ""
    /\ prec_vals = <<>>
    /\ tmin_vals = <<>>
    /\ tmax_vals = <<>>
    /\ params = Unset
    /\ ms = Unset
    /\ SweepUnset

\* the date literals of the forcing and of the state time axis
ForcingStart == <<1, 1, 2010>>
ForcingEnd   == <<12, 31, 2010>>
StateStart   == <<10, 3, 2009>>
StateEnd     == <<12, 31, 2009>>

\* the number of trailing rows the state cell slices ("[-90:]")
SpinupRows == 90

\* the row counts explored for the 2010 and for the 2009 exports
FullYearRows == Len(date_range(ForcingStart, ForcingEnd)) + 1
ForcingRowCounts ==
    {0, 1, 2, 4} \cup ((FullYearRows - RowSlack) .. (FullYearRows + RowSlack))
StateRowCounts ==
    {0, 1, 2} \cup ((SpinupRows - RowSlack) .. (SpinupRows + 1 + RowSlack))
    \cup {FullYearRows}

\* the run reads path and finds the export f there
Reads(path, f) ==
    csv' = [p \in (DOMAIN csv) \cup {path} |-> IF p = path THEN f ELSE csv[p]]

\* dates = pd.date_range('1/1/2010', '12/31/2010'); shape; coords;
\* met_data = xr.Dataset(coords=coords)
ForcingCoords ==
    /\ pc = "forcing_coords" /\ err = ""
    /\ dates' = date_range(ForcingStart, ForcingEnd)
    /\ shape' = <<Len(dates'), 1, 1>>
    /\ met_data' = Dataset([time |-> dates', lat |-> lats, lon |-> lons])
    /\ pc' = "forcing_arrays"
    /\ UNCHANGED <<err, csv, nc, domain, state, df, prec_vals, tmin_vals,
                   tmax_vals, params, ms>>
    /\ UNCHANGED sweep_vars

\* for varname in [...]: met_data[varname] = xr.DataArray(np.full(shape, nan))
ForcingArrays ==
    /\ pc = "forcing_arrays" /\ err = ""
    /\ met_data' = WithNaNArrays(met_data, shape)
    /\ pc' = "forcing_prec"
    /\ UNCHANGED <<err, csv, nc, dates, shape, domain, state, df, prec_vals,
                   tmin_vals, tmax_vals, params, ms>>
    /\ UNCHANGED sweep_vars

\* df[label].diff().values[1:], the increments before the unit conversion
ForcingIncrements(frame) == SliceFrom(diff(Column(frame, PrecLabel)), 1)

\* mutant: the "[1:]" is forgotten
ForcingPrecValsUnsliced(frame) ==
    TimesMMPerInch(diff(Column(frame, PrecLabel)))

\* df[label].diff().values[1:] * 25.4
ForcingPrecVals(frame) == TimesMMPerInch(ForcingIncrements(frame))

\* the precipitation statements of the forcing cell on the export f: the
\* exception raised ("" if none), and what was assigned before it
ForcingPrecCell(f, ds) ==
    IF ~f.exists
    THEN [err |-> "FileNotFoundError", loaded |-> FALSE, computed |-> FALSE,
          vals |-> <<>>, ds |-> ds]
    ELSE LET frame == read_csv(f, SkipRows) IN
         IF ~HasColumn(frame, PrecLabel)
         THEN [err |-> "KeyError", loaded |-> TRUE, computed |-> FALSE,
               vals |-> <<>>, ds |-> ds]
         ELSE LET vals == ForcingPrecVals(frame) IN
              IF ~CanAssign(ds.data["prec"], vals)
              THEN [err |-> "ValueError", loaded |-> TRUE, computed |-> TRUE,
                    vals |-> vals, ds |-> ds]
              ELSE [err |-> "", loaded |-> TRUE, computed |-> TRUE,
                    vals |-> vals,
                    ds |-> SetVar(ds, "prec", Assigned(ds.data["prec"], vals))]

ForcingPrec ==
    /\ pc = "forcing_prec" /\ err = ""
    /\ \E f \in PrecFiles(ForcingRowCounts) :
         LET r == ForcingPrecCell(f, met_data) IN
         /\ Reads(PrecPath2010, f)
         /\ err' = r.err
         /\ df' = IF r.loaded THEN PrecPath2010 ELSE df
         /\ prec_vals' = IF r.computed THEN r.vals ELSE prec_vals
         /\ met_data' = r.ds
         /\ pc' = IF r.err = "" THEN "forcing_temp" ELSE pc
    /\ UNCHANGED <<nc, dates, shape, domain, state, tmin_vals, tmax_vals,
                   params, ms>>
    /\ UNCHANGED sweep_vars

\* the temperature statements of the forcing cell on the export f
ForcingTempCell(f, ds) ==
    LET none == [err |-> "", loaded |-> FALSE, has_tmin |-> FALSE,
                 has_tmax |-> FALSE, tmin |-> <<>>, tmax |-> <<>>, ds |-> ds]
    IN
    IF ~f.exists THEN [none EXCEPT !.err = "FileNotFoundError"]
    ELSE LET frame == read_csv(f, SkipRows) IN
    IF ~HasColumn(frame, TMinLabel)
    THEN [none EXCEPT !.err = "KeyError", !.loaded = TRUE]
    ELSE LET tmin == SliceFrom(Column(frame, TMinLabel), 1) IN
    IF ~HasColumn(frame, TMaxLabel)
    THEN [none EXCEPT !.err = "KeyError", !.loaded = TRUE,
                      !.has_tmin = TRUE, !.tmin = tmin]
    ELSE LET tmax == SliceFrom(Column(frame, TMaxLabel), 1)
             got  == [none EXCEPT !.loaded = TRUE, !.has_tmin = TRUE,
                                  !.tmin = tmin, !.has_tmax = TRUE,
                                  !.tmax = tmax]
         IN
    IF ~CanAssign(ds.data["t_min"], tmin)
    THEN [got EXCEPT !.err = "ValueError"]
    ELSE LET ds1 == SetVar(ds, "t_min", Assigned(ds.data["t_min"], tmin)) IN
    IF ~CanAssign(ds1.data["t_max"], tmax)
    THEN [got EXCEPT !.err = "ValueError", !.ds = ds1]
    ELSE [got EXCEPT !.ds =
             SetVar(ds1, "t_max", Assigned(ds1.data["t_max"], tmax))]

ForcingTemp ==
    /\ pc = "forcing_temp" /\ err = ""
    /\ \E f \in TempFiles(ForcingRowCounts) :
         LET r == ForcingTempCell(f, met_data) IN
         /\ Reads(TempPath2010, f)
         /\ err' = r.err
         /\ df' = IF r.loaded THEN TempPath2010 ELSE df
         /\ tmin_vals' = IF r.has_tmin THEN r.tmin ELSE tmin_vals
         /\ tmax_vals' = IF r.has_tmax THEN r.tmax ELSE tmax_vals
         /\ met_data' = r.ds
         /\ pc' = IF r.err = "" THEN "forcing_write" ELSE pc
    /\ UNCHANGED <<nc, dates, shape, domain, state, prec_vals, params, ms>>
    /\ UNCHANGED sweep_vars

\* mutant: the file is written before the temperatures are assembled
ForcingWriteEarly ==
    /\ pc \in {"forcing_temp", "forcing_write"} /\ err = ""
    /\ nc' = to_netcdf(nc, ForcingPath, met_data)
    /\ pc' = IF pc = "forcing_write" THEN "domain_create" ELSE pc
    /\ UNCHANGED <<err, csv, dates, shape, met_data, domain, state, df,
                   prec_vals, tmin_vals, tmax_vals, params, ms>>
    /\ UNCHANGED sweep_vars

\* met_data.to_netcdf('./input/rc_forcing.nc')
ForcingWrite ==
    /\ pc = "forcing_write" /\ err = ""
    /\ nc' = to_netcdf(nc, ForcingPath, met_data)
    /\ pc' = "domain_create"
    /\ UNCHANGED <<err, csv, dates, shape, met_data, domain, state, df,
                   prec_vals, tmin_vals, tmax_vals, params, ms>>
    /\ UNCHANGED sweep_vars

\* coords = {lat, lon}; domain = xr.Dataset(coords); domain['elev'] and
\* domain['mask'] = np.full((1, 1), np.nan)
DomainCreate ==
    /\ pc = "domain_create" /\ err = ""
    /\ domain' = SetVar(SetVar(Dataset([lat |-> lats, lon |-> lons]),
                               "elev", full(<<1, 1>>, NaN)),
                        "mask", full(<<1, 1>>, NaN))
    /\ pc' = "domain_fill"
    /\ UNCHANGED <<err, csv, nc, dates, shape, met_data, state, df,
                   prec_vals, tmin_vals, tmax_vals, params, ms>>
    /\ UNCHANGED sweep_vars

\* mutant: the mask is left as created
DomainFilledElevOnly(ds) == [ds EXCEPT !.data["elev"][1] = elev]

\* domain['elev'][0, 0] = elev; domain['mask'][0, 0] = 1
DomainFilled(ds) ==
    [ds EXCEPT !.data["elev"][1] = elev, !.data["mask"][1] = 1]

DomainFill ==
    /\ pc = "domain_fill" /\ err = ""
    /\ domain' = DomainFilled(domain)
    /\ pc' = "domain_write"
    /\ UNCHANGED <<err, csv, nc, dates, shape, met_data, state, df,
                   prec_vals, tmin_vals, tmax_vals, params, ms>>
    /\ UNCHANGED sweep_vars

\* domain.to_netcdf('./input/rc_domain.nc')
DomainWrite ==
    /\ pc = "domain_write" /\ err = ""
    /\ nc' = to_netcdf(nc, DomainPath, domain)
    /\ pc' = "state_create"
    /\ UNCHANGED <<err, csv, dates, shape, met_data, domain, state, df,
                   prec_vals, tmin_vals, tmax_vals, params, ms>>
    /\ UNCHANGED sweep_vars

\* dates = pd.date_range('10/3/2009', '12/31/2009'); shape; coords;
\* state = xr.Dataset(coords); for varname in [...]: state[varname] = NaNs
StateCreate ==
    /\ pc = "state_create" /\ err = ""
    /\ dates' = date_range(StateStart, StateEnd)
    /\ shape' = <<Len(dates'), 1, 1>>
    /\ state' = WithNaNArrays(
                    Dataset([time |-> dates', lat |-> lats, lon |-> lons]),
                    shape')
    /\ pc' = "state_prec"
    /\ UNCHANGED <<err, csv, nc, met_data, domain, df, prec_vals, tmin_vals,
                   tmax_vals, params, ms>>
    /\ UNCHANGED sweep_vars

\* mutant: the window ends one row early, ".values[-91:-1]"
StatePrecValsShifted(frame) ==
    LET d  == diff(Column(frame, PrecLabel))
        n  == Len(d)
        lo == IF n > SpinupRows + 1 THEN n - (SpinupRows + 1) ELSE 0
    IN  TimesMMPerInch([i \in 1 .. (n - 1 - lo) |-> d[lo + i]])

\* mutant: the ".diff()" is forgotten
StatePrecValsRaw(frame) ==
    TimesMMPerInch(SliceFrom(Column(frame, PrecLabel), 0 - SpinupRows))

\* df[label].diff().values[-90:] * 25.4
StatePrecVals(frame) ==
    TimesMMPerInch(SliceFrom(diff(Column(frame, PrecLabel)), 0 - SpinupRows))

\* the precipitation statements of the state cell on the export f
StatePrecCell(f, ds) ==
    IF ~f.exists
    THEN [err |-> "FileNotFoundError", loaded |-> FALSE, computed |-> FALSE,
          vals |-> <<>>, ds |-> ds]
    ELSE LET frame == read_csv(f, SkipRows) IN
         IF ~HasColumn(frame, PrecLabel)
         THEN [err |-> "KeyError", loaded |-> TRUE, computed |-> FALSE,
               vals |-> <<>>, ds |-> ds]
         ELSE LET vals == StatePrecVals(frame) IN
              IF ~CanAssign(ds.data["prec"], vals)
              THEN [err |-> "ValueError", loaded |-> TRUE, computed |-> TRUE,
                    vals |-> vals, ds |-> ds]
              ELSE [err |-> "", loaded |-> TRUE, computed |-> TRUE,
                    vals |-> vals,
                    ds |-> SetVar(ds, "prec", Assigned(ds.data["prec"], vals))]

StatePrec ==
    /\ pc = "state_prec" /\ err = ""
    /\ \E f \in PrecFiles(StateRowCounts) :
         LET r == StatePrecCell(f, state) IN
         /\ Reads(PrecPath2009, f)
         /\ err' = r.err
         /\ df' = IF r.loaded THEN PrecPath2009 ELSE df
         /\ prec_vals' = IF r.computed THEN r.vals ELSE prec_vals
         /\ state' = r.ds
         /\ pc' = IF r.err = "" THEN "state_temp" ELSE pc
    /\ UNCHANGED <<nc, dates, shape, met_data, domain, tmin_vals, tmax_vals,
                   params, ms>>
    /\ UNCHANGED sweep_vars

\* the temperature statements of the state cell on the export f
StateTempCell(f, ds) ==
    LET none == [err |-> "", loaded |-> FALSE, has_tmin |-> FALSE,
                 has_tmax |-> FALSE, tmin |-> <<>>, tmax |-> <<>>, ds |-> ds]
    IN
    IF ~f.exists THEN [none EXCEPT !.err = "FileNotFoundError"]
    ELSE LET frame == read_csv(f, SkipRows) IN
    IF ~HasColumn(frame, TMinLabel)
    THEN [none EXCEPT !.err = "KeyError", !.loaded = TRUE]
    ELSE LET tmin == SliceFrom(Column(frame, TMinLabel), 0 - SpinupRows) IN
    IF ~HasColumn(frame, TMaxLabel)
    THEN [none EXCEPT !.err = "KeyError", !.loaded = TRUE,
                      !.has_tmin = TRUE, !.tmin = tmin]
    ELSE LET tmax == SliceFrom(Column(frame, TMaxLabel), 0 - SpinupRows)
             got  == [none EXCEPT !.loaded = TRUE, !.has_tmin = TRUE,
                                  !.tmin = tmin, !.has_tmax = TRUE,
                                  !.tmax = tmax]
         IN
    IF ~CanAssign(ds.data["t_min"], tmin)
    THEN [got EXCEPT !.err = "ValueError"]
    ELSE LET ds1 == SetVar(ds, "t_min", Assigned(ds.data["t_min"], tmin)) IN
    IF ~CanAssign(ds1.data["t_max"], tmax)
    THEN [got EXCEPT !.err = "ValueError", !.ds = ds1]
    ELSE [got EXCEPT !.ds =
             SetVar(ds1, "t_max", Assigned(ds1.data["t_max"], tmax))]

StateTemp ==
    /\ pc = "state_temp" /\ err = ""
    /\ \E f \in TempFiles(StateRowCounts) :
         LET r == StateTempCell(f, state) IN
         /\ Reads(TempPath2009, f)
         /\ err' = r.err
         /\ df' = IF r.loaded THEN TempPath2009 ELSE df
         /\ tmin_vals' = IF r.has_tmin THEN r.tmin ELSE tmin_vals
         /\ tmax_vals' = IF r.has_tmax THEN r.tmax ELSE tmax_vals
         /\ state' = r.ds
         /\ pc' = IF r.err = "" THEN "state_write" ELSE pc
    /\ UNCHANGED <<nc, dates, shape, met_data, domain, prec_vals, params, ms>>
    /\ UNCHANGED sweep_vars

\* state.to_netcdf('./input/rc_state.nc')
StateWrite ==
    /\ pc = "state_write" /\ err = ""
    /\ nc' = to_netcdf(nc, StatePath, state)
    /\ pc' = "params"
    /\ UNCHANGED <<err, csv, dates, shape, met_data, domain, state, df,
                   prec_vals, tmin_vals, tmax_vals, params, ms>>
    /\ UNCHANGED sweep_vars

\* the file the driver writes: out_dir and output_prefix of its configuration
OutputPath(p) ==
    IF p.out_dir = "./output" /\ p.output_prefix = "reynolds"
    THEN "./output/reynolds.nc"
    ELSE IF p.out_dir = "./output" /\ p.output_prefix = "green_river"
    THEN "./output/green_river.nc"
    ELSE "./output/other.nc"

\* mutant: the configuration names the forcing file as the state file
BuildParamsStateFromForcing ==
    /\ pc = "params" /\ err = ""
    /\ dates' = date_range(ForcingStart, ForcingEnd)
    /\ params' = [time_step |-> "60",
                  start |-> dates'[1], stop |-> dates'[Len(dates')],
                  forcing |-> ForcingPath, domain |-> DomainPath,
                  state |-> ForcingPath, forcing_fmt |-> "netcdf",
                  out_dir |-> "./output", output_prefix |-> "reynolds",
                  scheduler |-> "threading"]
    /\ pc' = "run"
    /\ UNCHANGED <<err, csv, nc, shape, met_data, domain, state, df,
                   prec_vals, tmin_vals, tmax_vals, ms>>
    /\ UNCHANGED sweep_vars

\* dates = pd.date_range('1/1/2010', '12/31/2010'); params = {...}
BuildParams ==
    /\ pc = "params" /\ err = ""
    /\ dates' = date_range(ForcingStart, ForcingEnd)
    /\ params' = [time_step |-> "60",
                  start |-> dates'[1], stop |-> dates'[Len(dates')],
                  forcing |-> ForcingPath, domain |-> DomainPath,
                  state |-> StatePath, forcing_fmt |-> "netcdf",
                  out_dir |-> "./output", output_prefix |-> "reynolds",
                  scheduler |-> "threading"]
    /\ pc' = "run"
    /\ UNCHANGED <<err, csv, nc, shape, met_data, domain, state, df,
                   prec_vals, tmin_vals, tmax_vals, ms>>
    /\ UNCHANGED sweep_vars

\* ms = MetSim(params); ms.run(): the driver opens the three input files its
\* configuration names and writes its output under out_dir
RunMetSim ==
    /\ pc = "run" /\ err = ""
    /\ LET inputs == {params.forcing, params.domain, params.state} IN
       IF inputs \subseteq DOMAIN nc
       THEN /\ ms' = [params |-> params, opened |-> inputs]
            /\ nc' = to_netcdf(nc, OutputPath(params),
                               [time |-> nc[params.forcing].coords.time,
                                prefix |-> params.output_prefix])
            /\ pc' = "done"
            /\ err' = err
       ELSE /\ err' = "FileNotFoundError"
            /\ UNCHANGED <<ms, pc, nc>>
    /\ UNCHANGED <<csv, dates, shape, met_data, domain, state, df,
                   prec_vals, tmin_vals, tmax_vals, params>>
    /\ UNCHANGED sweep_vars

Next ==
    \/ ForcingCoords
    \/ ForcingArrays
    \/ ForcingPrec
    \/ ForcingTemp
    \/ ForcingWrite
    \/ DomainCreate
    \/ DomainFill
    \/ DomainWrite
    \/ StateCreate
    \/ StatePrec
    \/ StateTemp
    \/ StateWrite
    \/ BuildParams
    \/ RunMetSim

Spec == Init /\ [][Next]_vars

----------------------------------------------------------------------------
(* The scripting notebook: one run, the longwave sweep, the sensitivity sweep *)

GreenForcing == "./input/green_river_forcing.nc"
GreenDomain  == "./input/green_river_domain.nc"
GreenState   == "./input/green_river_state.nc"
GreenOutput  == "./output/green_river.nc"

\* a date literal 'a/b/c' with a four-digit a is year/month/day
ParseDateYearFirst(lit) == ToOrdinal(lit[1], lit[2], lit[3])

SweepStart == <<1971, 1, 1>>
SweepEnd   == <<1971, 12, 31>>

\* the variables of the driver's output
OutVars == {"temp", "prec", "shortwave", "longwave", "vapor_pressure",
            "rel_humid"}

lw_types == <<"TVA", "Anderson", "Brutsaert", "Idso", "Satterlund", "Prata">>

\* str.lower() on the names of lw_types
Lower(name) ==
    CASE name = "TVA"        -> "tva"
      [] name = "Anderson"   -> "anderson"
      [] name = "Brutsaert"  -> "brutsaert"
      [] name = "Idso"       -> "idso"
      [] name = "Satterlund" -> "satterlund"
      [] name = "Prata"      -> "prata"
      [] OTHER               -> name

\* [0.0, 12*0.02, 12*0.05] and [0.6, 0.75, 0.9], in hundredths
spt_vals == <<0, 24, 60>>
rs_vals  == <<60, 75, 90>>

\* {}
dict == [k \in {} |-> <<>>]

\* d[k] = v
SetItem(d, k, v) ==
    [x \in (DOMAIN d) \cup {k} |-> IF x = k THEN v ELSE d[x]]

\* mutant: the dictionary's entry is never found
getDefault(d, k, default) == default

\* d.get(k, default)
get(d, k, default) == IF k \in DOMAIN d THEN d[k] ELSE default

\* MetSim(p): the driver keeps the configuration it was given
MetSim(p) == [params |-> p, opened |-> {p.forcing, p.domain, p.state}]

\* what a run of the driver m computes from the files on disk: every output
\* variable is a function of the configuration and of the input files
Output(m, disk) ==
    [v \in OutVars |->
        [name |-> v, config |-> m.params,
         inputs |-> [q \in m.opened |-> disk[q]]]]

\* m.run(): the output file is written, whatever it held before
run(m, disk) == to_netcdf(disk, OutputPath(m.params), Output(m, disk))

\* m.open_output(): a dataset that reads its file when asked for a value
open_output(m) ==
    [file |-> OutputPath(m.params), loaded |-> FALSE, data |-> dict]

\* mutant: nothing is read into memory
loadLazy(h, disk) == h

\* h.load(): the values of the file, as it is now, are read into memory
load(h, disk) == [h EXCEPT !.loaded = TRUE, !.data = disk[h.file]]

\* h[v]: the variable v of the dataset h
GetVar(h, v) ==
    IF h.loaded
    THEN [lazy |-> FALSE, file |-> h.file, name |-> v, value |-> h.data[v]]
    ELSE [lazy |-> TRUE, file |-> h.file, name |-> v, value |-> dict]

\* the input files found on disk: the forcing as delivered (one of two
\* deliveries) or missing; a previous session's output may still be there
SweepDisks ==
    { [q \in ({GreenDomain, GreenState}
              \cup (IF present THEN {GreenForcing} ELSE {})
              \cup (IF stale THEN {GreenOutput} ELSE {})) |->
          IF q = GreenOutput
          THEN [v \in OutVars |-> [name |-> v, config |-> dict,
                                   inputs |-> dict]]
          ELSE [file |-> q, delivery |-> delivery]] :
      present \in BOOLEAN, stale \in BOOLEAN, delivery \in {"a", "b"} }

InitSweep ==
    /\ pc = "sweep_params"
    /\ err = ""
    /\ nc \in SweepDisks
    /\ csv = Unset
    /\ dates = <<>>
    /\ shape = <<>>
    /\ met_data = Unset
    /\ domain = Unset
    /\ state = Unset
    /\ df = ""
    /\ prec_vals = <<>>
    /\ tmin_vals = <<>>
    /\ tmax_vals = <<>>
    /\ params = Unset
    /\ ms = Unset
    /\ SweepUnset

\* dates = pd.date_range('1971/01/01', '1971/12/31'); params = {...}
SweepParams ==
    /\ pc = "sweep_params" /\ err = ""
    /\ dates' = [k \in 1 .. (ParseDateYearFirst(SweepEnd)
                             - ParseDateYearFirst(SweepStart) + 1) |->
                    ParseDateYearFirst(SweepStart) + k - 1]
    /\ params' = [time_step |-> "60",
                  start |-> dates'[1], stop |-> dates'[Len(dates')],
                  forcing |-> GreenForcing, domain |-> GreenDomain,
                  state |-> GreenState, forcing_fmt |-> "netcdf",
                  out_dir |-> "./output", output_prefix |-> "green_river",
                  scheduler |-> "threading"]
    /\ pc' = "first_construct"
    /\ UNCHANGED <<err, nc, ms>>
    /\ UNCHANGED assembly_vars
    /\ UNCHANGED sweep_vars

\* ms = MetSim(params), at the statement at, followed by the statement next:
\* the driver opens its input files
Construct(at, next) ==
    /\ pc = at /\ err = ""
    /\ IF {params.forcing, params.domain, params.state} \subseteq DOMAIN nc
       THEN /\ ms' = MetSim(params)
            /\ pc' = next
            /\ err' = err
       ELSE /\ err' = "FileNotFoundError"
            /\ UNCHANGED <<ms, pc>>
    /\ UNCHANGED <<nc, dates, params>>
    /\ UNCHANGED assembly_vars
    /\ UNCHANGED sweep_vars

\* ms.run(), at the statement at, followed by the statement next
Run(at, next) ==
    /\ pc = at /\ err = ""
    /\ nc' = run(ms, nc)
    /\ pc' = next
    /\ UNCHANGED <<err, dates, params, ms>>
    /\ UNCHANGED assembly_vars
    /\ UNCHANGED sweep_vars

FirstConstruct == Construct("first_construct", "first_run")
FirstRun       == Run("first_run", "first_load")

\* out = ms.open_output().load(); out = out.sortby('hru')
FirstLoad ==
    /\ pc = "first_load" /\ err = ""
    /\ run_out' = load(open_output(ms), nc)
    /\ pc' = "lw_begin"
    /\ UNCHANGED <<err, nc, dates, params, ms>>
    /\ UNCHANGED assembly_vars
    /\ UNCHANGED <<lw, lw_ds, lw_vals, spt, rs, output, sw_vals>>

\* lw_types = [...]; lw_vals = {}; for lw in lw_types:
LwBegin ==
    /\ pc = "lw_begin" /\ err = ""
    /\ lw_vals' = dict
    /\ lw' = 1
    /\ pc' = "lw_set"
    /\ UNCHANGED <<err, nc, dates, params, ms>>
    /\ UNCHANGED assembly_vars
    /\ UNCHANGED <<run_out, lw_ds, spt, rs, output, sw_vals>>

\* params['lw_type'] = lw.lower()
LwSet ==
    /\ pc = "lw_set" /\ err = ""
    /\ params' = SetItem(params, "lw_type", Lower(lw_types[lw]))
    /\ pc' = "lw_construct"
    /\ UNCHANGED <<err, nc, dates, ms>>
    /\ UNCHANGED assembly_vars
    /\ UNCHANGED sweep_vars

LwConstruct == Construct("lw_construct", "lw_run")
LwRun       == Run("lw_run", "lw_load")

\* ds = ms.open_output().load()
LwLoad ==
    /\ pc = "lw_load" /\ err = ""
    /\ lw_ds' = load(open_output(ms), nc)
    /\ pc' = "lw_store"
    /\ UNCHANGED <<err, nc, dates, params, ms>>
    /\ UNCHANGED assembly_vars
    /\ UNCHANGED <<run_out, lw, lw_vals, spt, rs, output, sw_vals>>

\* lw_vals[lw] = ds['longwave']; ds.close(); the next lw, if any
LwStore ==
    /\ pc = "lw_store" /\ err = ""
    /\ lw_vals' = SetItem(lw_vals, lw_types[lw], GetVar(lw_ds, "longwave"))
    /\ IF lw < Len(lw_types)
       THEN lw' = lw + 1 /\ pc' = "lw_set"
       ELSE lw' = lw /\ pc' = "sw_begin"
    /\ UNCHANGED <<err, nc, dates, params, ms>>
    /\ UNCHANGED assembly_vars
    /\ UNCHANGED <<run_out, lw_ds, spt, rs, output, sw_vals>>

\* params['lw_type'] = 'prata'; sw_vals = {}; spt_vals = ...; rs_vals = ...;
\* for spt in spt_vals: for rs in rs_vals:
SwBegin ==
    /\ pc = "sw_begin" /\ err = ""
    /\ params' = SetItem(params, "lw_type", "prata")
    /\ sw_vals' = dict
    /\ spt' = 1
    /\ rs' = 1
    /\ pc' = "sw_set"
    /\ UNCHANGED <<err, nc, dates, ms>>
    /\ UNCHANGED assembly_vars
    /\ UNCHANGED <<run_out, lw, lw_ds, lw_vals, output>>

\* params['sw_prec_thresh'] = spt; params['rain_scalar'] = rs
SwSet ==
    /\ pc = "sw_set" /\ err = ""
    /\ params' = SetItem(SetItem(params, "sw_prec_thresh", spt_vals[spt]),
                         "rain_scalar", rs_vals[rs])
    /\ pc' = "sw_construct"
    /\ UNCHANGED <<err, nc, dates, ms>>
    /\ UNCHANGED assembly_vars
    /\ UNCHANGED sweep_vars

SwConstruct == Construct("sw_construct", "sw_run")
SwRun       == Run("sw_run", "sw_load")

\* output = ms.open_output().load()
SwLoad ==
    /\ pc = "sw_load" /\ err = ""
    /\ output' = load(open_output(ms), nc)
    /\ pc' = "sw_store"
    /\ UNCHANGED <<err, nc, dates, params, ms>>
    /\ UNCHANGED assembly_vars
    /\ UNCHANGED <<run_out, lw, lw_ds, lw_vals, spt, rs, sw_vals>>

\* rs_dict = sw_vals.get(spt, {}); rs_dict[rs] = output['shortwave'];
\* sw_vals[spt] = rs_dict; output.close(); the next rs or spt, if any
SwStore ==
    /\ pc = "sw_store" /\ err = ""
    /\ LET rs_dict == SetItem(get(sw_vals, spt_vals[spt], dict), rs_vals[rs],
                              GetVar(output, "shortwave"))
       IN  sw_vals' = SetItem(sw_vals, spt_vals[spt], rs_dict)
    /\ IF rs < Len(rs_vals)
       THEN rs' = rs + 1 /\ spt' = spt /\ pc' = "sw_set"
       ELSE IF spt < Len(spt_vals)
       THEN rs' = 1 /\ spt' = spt + 1 /\ pc' = "sw_set"
       ELSE rs' = rs /\ spt' = spt /\ pc' = "reload"
    /\ UNCHANGED <<err, nc, dates, params, ms>>
    /\ UNCHANGED assembly_vars
    /\ UNCHANGED <<run_out, lw, lw_ds, lw_vals, output>>

\* output = ms.open_output().load(); ...; output.close()
Reload ==
    /\ pc = "reload" /\ err = ""
    /\ output' = load(open_output(ms), nc)
    /\ pc' = "mapping"
    /\ UNCHANGED <<err, nc, dates, params, ms>>
    /\ UNCHANGED assembly_vars
    /\ UNCHANGED <<run_out, lw, lw_ds, lw_vals, spt, rs, sw_vals>>

\* mapping = {(spt, rs, t): param_map(spt, rs, t) ... for spt in spt_vals
\* for rs in rs_vals}: param_map reads sw_vals[spt][rs]
Mapping ==
    /\ pc = "mapping" /\ err = ""
    /\ IF \A a \in 1 .. Len(spt_vals) : \A b \in 1 .. Len(rs_vals) :
             /\ spt_vals[a] \in DOMAIN sw_vals
             /\ rs_vals[b] \in DOMAIN sw_vals[spt_vals[a]]
       THEN pc' = "sweep_done" /\ err' = err
       ELSE pc' = pc /\ err' = "KeyError"
    /\ UNCHANGED <<nc, dates, params, ms>>
    /\ UNCHANGED assembly_vars
    /\ UNCHANGED sweep_vars

NextSweep ==
    \/ SweepParams
    \/ FirstConstruct
    \/ FirstRun
    \/ FirstLoad
    \/ LwBegin
    \/ LwSet
    \/ LwConstruct
    \/ LwRun
    \/ LwLoad
    \/ LwStore
    \/ SwBegin
    \/ SwSet
    \/ SwConstruct
    \/ SwRun
    \/ SwLoad
    \/ SwStore
    \/ Reload
    \/ Mapping

SpecSweep == InitSweep /\ [][NextSweep]_vars

----------------------------------------------------------------------------
(* What the properties below read off a state *)

\* the export at path has been loaded and holds the columns looked up in it
Loaded(path) ==
    /\ path \in DOMAIN csv
    /\ csv[path].exists
    /\ csv[path].header = "export"

\* the raw readings of data row i (1-based) of the export at path, as the
\* file holds them
Cum(path, i)     == DataRow(csv[path], i)[2]
RawTMax(path, i) == DataRow(csv[path], i)[2]
RawTMin(path, i) == DataRow(csv[path], i)[3]

\* prec_vals, tmin_vals and tmax_vals hold what the forcing cell computed
HoldsForcingPrec == Loaded(PrecPath2010) /\ PrecPath2009 \notin DOMAIN csv
HoldsForcingTemp == Loaded(TempPath2010) /\ TempPath2009 \notin DOMAIN csv

ForcingSteps == {"forcing_coords", "forcing_arrays", "forcing_prec",
                 "forcing_temp", "forcing_write"}
DomainSteps  == {"domain_create", "domain_fill", "domain_write"}
StateSteps   == {"state_create", "state_prec", "state_temp", "state_write"}

\* every variable of the state dataset has been assigned
StateAssembled   == pc \in {"state_write", "params", "run", "done"}

----------------------------------------------------------------------------
(* Properties *)

\* C1: for an export of N >= 2 cumulative readings the forcing cell's
\* precipitation series has exactly N-1 entries, entry i being
\* cumulative[i+1] - cumulative[i] (then converted to mm); the first raw
\* reading yields no entry.  When the series fits the time axis it is what
\* the forcing dataset stores.
C1_Increments ==
    HoldsForcingPrec =>
        LET N == csv[PrecPath2010].rows IN
        N >= 2 =>
            /\ Len(prec_vals) = N - 1
            /\ \A i \in 1 .. N - 1 :
                 prec_vals[i] = MMPerInchTenths *
                     (Cum(PrecPath2010, i + 1) - Cum(PrecPath2010, i))
            /\ (N - 1 = Len(met_data.coords.time) /\ pc # "forcing_prec")
                 => met_data.data["prec"] = prec_vals

C1_Witness ==
    /\ HoldsForcingPrec
    /\ pc = "forcing_temp"
    /\ csv[PrecPath2010].rows = FullYearRows
    /\ csv[PrecPath2010].pat = <<0, 50, 50, 120>>
    /\ csv[PrecPath2010].rate = 1
    /\ met_data.data["prec"][2] # met_data.data["prec"][3]

\* C2: when the 2009 exports hold more than L = 90 rows, the assembled state
\* dataset holds exactly the last L increments of the differenced
\* precipitation (converted to mm) and the last L raw temperature rows; of a
\* 92-row temperature export it holds rows 3..92.
C2_SpinupWindow ==
    StateAssembled =>
        LET L  == SpinupRows
            NP == csv[PrecPath2009].rows
            NT == csv[TempPath2009].rows
        IN
        /\ NP > L =>
             /\ Len(state.data["prec"]) = L
             /\ \A k \in 1 .. L :
                  state.data["prec"][k] = MMPerInchTenths *
                      (Cum(PrecPath2009, NP - L + k)
                       - Cum(PrecPath2009, NP - L + k - 1))
        /\ NT > L =>
             /\ Len(state.data["t_min"]) = L
             /\ Len(state.data["t_max"]) = L
             /\ \A k \in 1 .. L :
                  /\ state.data["t_min"][k] = RawTMin(TempPath2009, NT - L + k)
                  /\ state.data["t_max"][k] = RawTMax(TempPath2009, NT - L + k)
        /\ NT = 92 =>
             /\ state.data["t_min"][1] = RawTMin(TempPath2009, 3)
             /\ state.data["t_min"][L] = RawTMin(TempPath2009, 92)

C2_Witness ==
    /\ StateAssembled
    /\ StatePath \in DOMAIN nc
    /\ csv[TempPath2009].rows = 92
    /\ csv[TempPath2009].rate = 1
    /\ csv[PrecPath2009].rows = 92
    /\ csv[PrecPath2009].rate = 1
    /\ nc[StatePath].data["t_min"][1] = RawTMin(TempPath2009, 3)

\* arr[:, 0, 0] = vals at the statement group step: a series that is neither
\* as long as the array nor of length one raises ValueError there and leaves
\* the array as it was created; a series of length one is broadcast
AssemblyRule(arr, vals, step) ==
    LET failed == err = "ValueError" /\ pc = step IN
    /\ Len(vals) \notin {Len(arr), 1} =>
         /\ failed
         /\ \A k \in 1 .. Len(arr) : arr[k] = NaN
    /\ Len(vals) = Len(arr) => ~failed /\ (pc # step => arr = vals)
    /\ (Len(vals) = 1 /\ Len(arr) # 1) =>
         /\ ~failed
         /\ pc # step => \A k \in 1 .. Len(arr) : arr[k] = vals[1]

\* C3 as stated: whenever fewer than L rows exist after differencing (the raw
\* precipitation export has at most L rows) the state cell fails and no state
\* dataset is produced.
C3_Original ==
    (Loaded(PrecPath2009) /\ csv[PrecPath2009].rows - 1 < SpinupRows) =>
        /\ err # ""
        /\ pc = "state_prec"
        /\ StatePath \notin DOMAIN nc

\* C3, amended: a raw precipitation export of fewer than L rows, other than
\* exactly one row, makes the state cell fail (ValueError on the assignment)
\* with no state file written; an export of exactly L rows does not fail: the
\* first stored entry is missing (NaN), the others are the increments; an
\* export of exactly one row does not fail either: every entry is missing.
C3_ShortHistory ==
    Loaded(PrecPath2009) =>
        LET N == csv[PrecPath2009].rows
            L == SpinupRows
            stored == state.data["prec"]
        IN
        /\ (N < L /\ N # 1) =>
             /\ err = "ValueError" /\ pc = "state_prec"
             /\ StatePath \notin DOMAIN nc
             /\ \A k \in 1 .. Len(stored) : stored[k] = NaN
        /\ N = L =>
             /\ pc # "state_prec"
             /\ stored[1] = NaN
             /\ \A k \in 2 .. L :
                  stored[k] = MMPerInchTenths *
                      (Cum(PrecPath2009, k) - Cum(PrecPath2009, k - 1))
        /\ N = 1 =>
             /\ pc # "state_prec"
             /\ \A k \in 1 .. Len(stored) : stored[k] = NaN

C3_Witness ==
    /\ Loaded(PrecPath2009)
    /\ csv[PrecPath2009].rows = SpinupRows
    /\ StatePath \in DOMAIN nc
    /\ nc[StatePath].data["prec"][1] = NaN
    /\ nc[StatePath].data["prec"][2] # NaN

\* C4 as stated: a series whose length differs from the time axis makes the
\* assembly fail (here: the forcing precipitation).
C4_Original ==
    (HoldsForcingPrec /\ Len(prec_vals) # Len(met_data.coords.time)) =>
        err # "" /\ pc = "forcing_prec"

\* C4, amended: a series assigned into a dataset whose length is neither the
\* time-axis length nor 1 (364 against 365, say) makes the assignment fail
\* with ValueError and leaves the array untouched, never truncated or padded;
\* a series of length 1 does not fail: it is broadcast to every time step.
C4_Assembly ==
    /\ HoldsForcingPrec =>
         AssemblyRule(met_data.data["prec"], prec_vals, "forcing_prec")
    /\ HoldsForcingTemp =>
         /\ AssemblyRule(met_data.data["t_min"], tmin_vals, "forcing_temp")
         /\ AssemblyRule(met_data.data["t_max"], tmax_vals, "forcing_temp")
    /\ Loaded(PrecPath2009) =>
         AssemblyRule(state.data["prec"], prec_vals, "state_prec")
    /\ Loaded(TempPath2009) =>
         /\ AssemblyRule(state.data["t_min"], tmin_vals, "state_temp")
         /\ AssemblyRule(state.data["t_max"], tmax_vals, "state_temp")

C4_Witness ==
    /\ HoldsForcingPrec
    /\ Len(prec_vals) = Len(met_data.coords.time) - 1
    /\ err = "ValueError"
    /\ pc = "forcing_prec"

\* C5: once the state dataset has been built after the forcing dataset, its
\* time axis ends exactly one day before the forcing dataset's first day, no
\* day of it reaches into the forcing period, and it is at least 90 days
\* long; the same holds of the two files when both are on disk.
C5_Alignment ==
    /\ pc \notin ForcingSteps \cup DomainSteps \cup {"state_create"} =>
         LET st == state.coords.time
             ft == met_data.coords.time
         IN  /\ Len(st) >= SpinupRows
             /\ st[Len(st)] + 1 = ft[1]
             /\ \A i \in 1 .. Len(st) : st[i] < ft[1]
    /\ {ForcingPath, StatePath} \subseteq DOMAIN nc =>
         LET st == nc[StatePath].coords.time
             ft == nc[ForcingPath].coords.time
         IN  /\ Len(st) >= SpinupRows
             /\ st[Len(st)] + 1 = ft[1]

C5_Witness ==
    /\ pc = "done"
    /\ {ForcingPath, StatePath} \subseteq DOMAIN nc
    /\ Len(nc[StatePath].coords.time) = 90
    /\ nc[ForcingPath].coords.time[1] = ToOrdinal(2010, 1, 1)

\* C6: a dataset's file is on disk only once every statement building the
\* dataset has succeeded, and then holds the dataset as assembled; when a
\* statement of its construction fails, no file of that dataset is on disk.
\* (The disk holds none of the three files when the run starts.)
C6_AllOrNothing ==
    /\ ForcingPath \in DOMAIN nc =>
         /\ pc \notin ForcingSteps
         /\ Loaded(PrecPath2010) /\ Loaded(TempPath2010)
         /\ nc[ForcingPath] = met_data
         /\ \A v \in VarNames :
              Len(met_data.data[v]) = Len(met_data.coords.time)
    /\ (err # "" /\ pc \in ForcingSteps) => ForcingPath \notin DOMAIN nc
    /\ DomainPath \in DOMAIN nc =>
         /\ pc \notin ForcingSteps \cup DomainSteps
         /\ nc[DomainPath] = domain
    /\ (err # "" /\ pc \in DomainSteps) => DomainPath \notin DOMAIN nc
    /\ StatePath \in DOMAIN nc =>
         /\ pc \notin ForcingSteps \cup DomainSteps \cup StateSteps
         /\ Loaded(PrecPath2009) /\ Loaded(TempPath2009)
         /\ nc[StatePath] = state
         /\ \A v \in VarNames :
              Len(state.data[v]) = Len(state.coords.time)
    /\ (err # "" /\ pc \in StateSteps) => StatePath \notin DOMAIN nc

C6_Witness ==
    /\ err = "ValueError"
    /\ pc = "state_temp"
    /\ state.data["prec"][2] # NaN
    /\ StatePath \notin DOMAIN nc
    /\ ForcingPath \in DOMAIN nc

\* C7: precipitation is multiplied by 25.4 once, after differencing, in the
\* forcing and in the state dataset; temperatures are stored as read.
\* Cumulative [0.0, 0.5, 0.5, 1.2] in yields [12.7, 0.0, 17.78] mm.
C7_UnitConversion ==
    /\ (Loaded(PrecPath2010) /\ pc \notin {"forcing_prec"}
        /\ csv[PrecPath2010].rows = FullYearRows) =>
         \A k \in 1 .. Len(met_data.coords.time) :
            met_data.data["prec"][k] = MMPerInchTenths *
                (Cum(PrecPath2010, k + 1) - Cum(PrecPath2010, k))
    /\ (Loaded(TempPath2010) /\ pc \notin {"forcing_temp"}
        /\ csv[TempPath2010].rows = FullYearRows) =>
         \A k \in 1 .. Len(met_data.coords.time) :
            /\ met_data.data["t_min"][k] = RawTMin(TempPath2010, k + 1)
            /\ met_data.data["t_max"][k] = RawTMax(TempPath2010, k + 1)
    /\ (Loaded(PrecPath2009) /\ pc \notin {"state_prec"}
        /\ csv[PrecPath2009].rows = FullYearRows) =>
         \A k \in 1 .. SpinupRows :
            state.data["prec"][k] = MMPerInchTenths *
                (Cum(PrecPath2009, FullYearRows - SpinupRows + k)
                 - Cum(PrecPath2009, FullYearRows - SpinupRows + k - 1))
    /\ (Loaded(TempPath2009) /\ pc \notin {"state_temp"}
        /\ csv[TempPath2009].rows = FullYearRows) =>
         \A k \in 1 .. SpinupRows :
            state.data["t_min"][k] =
                RawTMin(TempPath2009, FullYearRows - SpinupRows + k)
    /\ (HoldsForcingPrec /\ csv[PrecPath2010].rows = 4
        /\ csv[PrecPath2010].rate = 0
        /\ csv[PrecPath2010].pat = <<0, 50, 50, 120>>) =>
         prec_vals = <<12700, 0, 17780>>

C7_Witness ==
    /\ HoldsForcingPrec
    /\ csv[PrecPath2010].rows = 4
    /\ csv[PrecPath2010].rate = 0
    /\ csv[PrecPath2010].pat = <<0, 50, 50, 120>>
    /\ prec_vals = <<12700, 0, 17780>>

\* C8 as stated: whenever the number of rows selected disagrees with the
\* window the state time axis spans, the state assembly aborts and stores
\* nothing.
C8_Original ==
    (Loaded(PrecPath2009) /\ Len(prec_vals) # Len(state.coords.time)) =>
        /\ err # ""
        /\ StatePath \notin DOMAIN nc

\* C8, amended: the state time axis is the days from 3 October 2009 to
\* 31 December 2009 whatever the slices select; there is no cross-check of
\* its own: a selection of another length than the axis aborts the state
\* cell on the assignment (ValueError) with no state file written, except a
\* selection of exactly one row, which is stored across the whole window; a
\* state file never holds a window shorter or longer than its axis.
C8_WindowCheck ==
    pc \notin ForcingSteps \cup DomainSteps \cup {"state_create"} =>
        LET axis == state.coords.time IN
        /\ Len(axis) = ToOrdinal(2009, 12, 31) - ToOrdinal(2009, 10, 3) + 1
        /\ axis[1] = ToOrdinal(2009, 10, 3)
        /\ Loaded(PrecPath2009) =>
             /\ Len(prec_vals) \notin {Len(axis), 1} =>
                  /\ err = "ValueError" /\ pc = "state_prec"
                  /\ StatePath \notin DOMAIN nc
             /\ Len(prec_vals) = 1 => pc # "state_prec"
        /\ Loaded(TempPath2009) =>
             /\ Len(tmin_vals) \notin {Len(axis), 1} =>
                  /\ err = "ValueError" /\ pc = "state_temp"
                  /\ StatePath \notin DOMAIN nc
             /\ Len(tmin_vals) = 1 => pc # "state_temp"
        /\ StatePath \in DOMAIN nc =>
             \A v \in VarNames :
                Len(nc[StatePath].data[v]) = Len(nc[StatePath].coords.time)

C8_Witness ==
    /\ Loaded(PrecPath2009)
    /\ csv[PrecPath2009].rows = 1
    /\ Len(prec_vals) = 1
    /\ StatePath \in DOMAIN nc
    /\ Len(nc[StatePath].data["prec"]) = 90

\* the values a stored series may hold: missing, or a value of the input
PrecInputs(path) ==
    {NaN} \cup {MMPerInchTenths * (Cum(path, i + 1) - Cum(path, i)) :
                   i \in 1 .. csv[path].rows - 1}
TempInputs(path) ==
    {NaN} \cup {RawTMin(path, i) : i \in 1 .. csv[path].rows}
          \cup {RawTMax(path, i) : i \in 1 .. csv[path].rows}

\* every cell of the array is missing
AllMissing(arr) == \A k \in 1 .. Len(arr) : arr[k] = NaN

\* every cell of the array is missing or a value of the input
AllFrom(arr, inputs) == \A k \in 1 .. Len(arr) : arr[k] \in inputs

\* C9: in the forcing and in the state dataset, a variable no input has been
\* written to holds the missing marker in every cell (never zero or another
\* number), and a variable that has been written holds, in every cell, the
\* missing marker or a value derived from the input series.
C9_MissingNotZero ==
    /\ pc \notin {"forcing_coords", "forcing_arrays"} =>
         /\ Len(met_data.data["prec"]) = Len(met_data.coords.time)
         /\ IF pc = "forcing_prec"
            THEN AllMissing(met_data.data["prec"])
            ELSE AllFrom(met_data.data["prec"], PrecInputs(PrecPath2010))
         /\ IF pc \in {"forcing_prec", "forcing_temp"}
            THEN /\ AllMissing(met_data.data["t_min"])
                 /\ AllMissing(met_data.data["t_max"])
            ELSE /\ AllFrom(met_data.data["t_min"], TempInputs(TempPath2010))
                 /\ AllFrom(met_data.data["t_max"], TempInputs(TempPath2010))
    /\ pc \notin ForcingSteps \cup DomainSteps \cup {"state_create"} =>
         /\ Len(state.data["prec"]) = Len(state.coords.time)
         /\ IF pc = "state_prec"
            THEN AllMissing(state.data["prec"])
            ELSE AllFrom(state.data["prec"], PrecInputs(PrecPath2009))
         /\ IF pc \in {"state_prec", "state_temp"}
            THEN /\ AllMissing(state.data["t_min"])
                 /\ AllMissing(state.data["t_max"])
            ELSE /\ AllFrom(state.data["t_min"], TempInputs(TempPath2009))
                 /\ AllFrom(state.data["t_max"], TempInputs(TempPath2009))

C9_Witness ==
    /\ err = "ValueError"
    /\ pc = "state_temp"
    /\ csv[PrecPath2009].rows = SpinupRows
    /\ state.data["prec"][1] = NaN
    /\ state.data["prec"][2] # NaN
    /\ AllMissing(state.data["t_min"])

\* C10: in the domain file written, the spatial units are those of the
\* forcing file, each has an elevation and a mask entry, and every mask value
\* is exactly 0 or 1.
C10_Domain ==
    DomainPath \in DOMAIN nc =>
        LET d == nc[DomainPath]
            units == Len(d.coords.lat) * Len(d.coords.lon)
        IN
        /\ ForcingPath \in DOMAIN nc
        /\ d.coords.lat = nc[ForcingPath].coords.lat
        /\ d.coords.lon = nc[ForcingPath].coords.lon
        /\ Len(d.data["mask"]) = units
        /\ Len(d.data["elev"]) = units
        /\ \A i \in 1 .. units : d.data["mask"][i] \in {0, 1}

C10_Witness ==
    /\ DomainPath \in DOMAIN nc
    /\ nc[DomainPath].data["mask"] = <<1>>
    /\ nc[DomainPath].data["elev"] = <<elev>>

\* the timestamps are consecutive calendar days
Contiguous(axis) == \A i \in 1 .. Len(axis) - 1 : axis[i + 1] = axis[i] + 1

\* C12: every time axis built -- of the forcing and of the state dataset, in
\* memory and on disk -- is ordered with consecutive timestamps one calendar
\* day apart, and its length is the inclusive day count between its start and
\* end dates: 365 for the 2010 forcing, 90 for the state.
C12_TimeAxis ==
    /\ pc # "forcing_coords" =>
         LET ft == met_data.coords.time IN
         /\ Contiguous(ft)
         /\ Len(ft) = 365
         /\ ft[Len(ft)] - ft[1] + 1 = Len(ft)
    /\ pc \notin ForcingSteps \cup DomainSteps \cup {"state_create"} =>
         LET st == state.coords.time IN
         /\ Contiguous(st)
         /\ Len(st) = 90
         /\ st[Len(st)] - st[1] + 1 = Len(st)
    /\ ForcingPath \in DOMAIN nc =>
         /\ Contiguous(nc[ForcingPath].coords.time)
         /\ Len(nc[ForcingPath].coords.time) = 365
    /\ StatePath \in DOMAIN nc =>
         /\ Contiguous(nc[StatePath].coords.time)
         /\ Len(nc[StatePath].coords.time) = 90

C12_Witness ==
    /\ {ForcingPath, StatePath} \subseteq DOMAIN nc
    /\ nc[ForcingPath].coords.time[365] = ToOrdinal(2010, 12, 31)
    /\ nc[StatePath].coords.time[1] = ToOrdinal(2009, 10, 3)
    /\ nc[StatePath].coords.time[90] = ToOrdinal(2009, 12, 31)

\* C13: where a cumulative reading is below the one before it (a counter
\* reset), the increment computed and stored for that day is the negative
\* difference times 25.4: it is not clamped to zero, dropped or corrected, in
\* the forcing and in the state dataset.
C13_NegativePassThrough ==
    /\ HoldsForcingPrec =>
         LET N == csv[PrecPath2010].rows IN
         /\ N >= 1 => Len(prec_vals) = N - 1
         /\ \A i \in 1 .. N - 1 :
              Cum(PrecPath2010, i + 1) < Cum(PrecPath2010, i) =>
                 /\ prec_vals[i] < 0
                 /\ prec_vals[i] = MMPerInchTenths *
                        (Cum(PrecPath2010, i + 1) - Cum(PrecPath2010, i))
                 /\ (N = FullYearRows /\ pc # "forcing_prec") =>
                        met_data.data["prec"][i] = prec_vals[i]
    /\ (Loaded(PrecPath2009) /\ pc # "state_prec"
        /\ csv[PrecPath2009].rows > SpinupRows) =>
         LET off == csv[PrecPath2009].rows - SpinupRows IN
         \A k \in 1 .. SpinupRows :
            Cum(PrecPath2009, off + k) < Cum(PrecPath2009, off + k - 1) =>
               /\ state.data["prec"][k] < 0
               /\ state.data["prec"][k] = MMPerInchTenths *
                      (Cum(PrecPath2009, off + k)
                       - Cum(PrecPath2009, off + k - 1))

C13_Witness ==
    /\ ForcingPath \in DOMAIN nc
    /\ csv[PrecPath2010].rate = 0
    /\ csv[PrecPath2010].rows = FullYearRows
    /\ Cum(PrecPath2010, 5) < Cum(PrecPath2010, 4)
    /\ nc[ForcingPath].data["prec"][4] = 0 - 30480

\* s[lo] + ... + s[hi], summed by halves
RECURSIVE SumRange(_, _, _)
SumRange(s, lo, hi) ==
    IF lo > hi THEN 0
    ELSE IF lo = hi THEN s[lo]
    ELSE LET mid == (lo + hi) \div 2 IN
         SumRange(s, lo, mid) + SumRange(s, mid + 1, hi)

\* s[1] + ... + s[n]
SumTo(s, n) == SumRange(s, 1, n)

\* C14: for an export of N >= 2 cumulative readings, the N-1 increments the
\* transform produces before the unit conversion sum to
\* cumulative[last] - cumulative[first] (so the converted series sums to 25.4
\* times that).
C14_Telescoping ==
    HoldsForcingPrec =>
        LET N   == csv[PrecPath2010].rows
            inc == ForcingIncrements(read_csv(csv[PrecPath2010], SkipRows))
        IN
        N >= 2 =>
            /\ Len(inc) = N - 1
            /\ SumTo(inc, Len(inc)) =
                  Cum(PrecPath2010, N) - Cum(PrecPath2010, 1)
            /\ SumTo(prec_vals, Len(prec_vals)) = MMPerInchTenths *
                  (Cum(PrecPath2010, N) - Cum(PrecPath2010, 1))

C14_Witness ==
    /\ HoldsForcingPrec
    /\ csv[PrecPath2010].rows = FullYearRows
    /\ csv[PrecPath2010].rate = 1
    /\ Len(prec_vals) = 365
    /\ SumTo(prec_vals, 365) =
          MMPerInchTenths * (Cum(PrecPath2010, 366) - Cum(PrecPath2010, 1))
    /\ \E i \in 1 .. 365 : prec_vals[i] # prec_vals[1]

\* what the loader makes of the export read at step: frame is the file
\* without its two metadata rows; a header without the literal labels stops
\* the cell there with an exception named error, the variables names of the
\* dataset ds still unassigned and the file out not written
LoaderRule(step, path, names, ds, out, error) ==
    (path \in DOMAIN csv /\ csv[path].exists) =>
        LET f     == csv[path]
            frame == read_csv(f, SkipRows)
        IN
        /\ frame.columns = Header(f.kind, f.header)
        /\ Len(frame.data) = f.rows
        /\ \A i \in 1 .. f.rows : frame.data[i] = DataRow(f, i)
        /\ f.header = "export" =>
              /\ \A l \in (IF f.kind = "prec" THEN {PrecLabel}
                           ELSE {TMinLabel, TMaxLabel}) : HasColumn(frame, l)
              /\ ~(pc = step /\ err \in {"KeyError", "MalformedInputError"})
        /\ f.header # "export" =>
              /\ pc = step
              /\ err = error
              /\ \A v \in names : AllMissing(ds.data[v])
              /\ out \notin DOMAIN nc

\* C15 as stated: an absent label fails the load with MalformedInputError
\* before any value is written into a dataset.
C15_Original ==
    /\ LoaderRule("forcing_prec", PrecPath2010, VarNames, met_data,
                  ForcingPath, "MalformedInputError")
    /\ LoaderRule("forcing_temp", TempPath2010, VarNames, met_data,
                  ForcingPath, "MalformedInputError")
    /\ LoaderRule("state_prec", PrecPath2009, VarNames, state,
                  StatePath, "MalformedInputError")
    /\ LoaderRule("state_temp", TempPath2009, VarNames, state,
                  StatePath, "MalformedInputError")

\* C15: the loader discards the two metadata rows and looks columns up by
\* their literal label, trailing space included; when a label is absent the
\* cell stops with pandas' KeyError before any value of that file is assigned
\* and before the dataset is written to disk (values of a file loaded
\* earlier are already in the dataset in memory).
C15_Loader ==
    /\ LoaderRule("forcing_prec", PrecPath2010, {"prec"}, met_data,
                  ForcingPath, "KeyError")
    /\ LoaderRule("forcing_temp", TempPath2010, {"t_min", "t_max"}, met_data,
                  ForcingPath, "KeyError")
    /\ LoaderRule("state_prec", PrecPath2009, {"prec"}, state,
                  StatePath, "KeyError")
    /\ LoaderRule("state_temp", TempPath2009, {"t_min", "t_max"}, state,
                  StatePath, "KeyError")

C15_Witness ==
    /\ pc = "forcing_temp"
    /\ err = "KeyError"
    /\ csv[TempPath2010].header = "trimmed"
    /\ AllMissing(met_data.data["t_min"])
    /\ ~AllMissing(met_data.data["prec"])

\* the three input files of the driver
InputPaths == {ForcingPath, DomainPath, StatePath}

\* C16: when the driver is about to be constructed, the three input files
\* are on disk, they hold the datasets as assembled, and the 'forcing',
\* 'domain' and 'state' entries of the configuration are the paths they were
\* written to; the driver opens exactly these files; and an input file, once
\* written, is never written again or modified, in particular not by the
\* step that runs the driver.
C16_HandOff ==
    /\ [](pc \in {"run", "done"} =>
            /\ InputPaths \subseteq DOMAIN nc
            /\ params.forcing = ForcingPath
            /\ params.domain = DomainPath
            /\ params.state = StatePath
            /\ nc[params.forcing] = met_data
            /\ nc[params.domain] = domain
            /\ nc[params.state] = state
            /\ err = ""
            /\ pc = "done" => /\ ms.opened = InputPaths
                              /\ ms.params = params
                              /\ OutputPath(params) \in DOMAIN nc
                              /\ OutputPath(params) \notin InputPaths)
    /\ [][/\ \A p \in InputPaths :
               p \in DOMAIN nc => (p \in DOMAIN nc' /\ nc'[p] = nc[p])
          /\ pc' = "done" => /\ pc = "run"
                             /\ InputPaths \subseteq DOMAIN nc]_vars

C16_Witness ==
    /\ pc = "done"
    /\ ms.opened = {ForcingPath, DomainPath, StatePath}
    /\ nc[ForcingPath] = met_data
    /\ nc[StatePath] = state
    /\ DOMAIN nc = InputPaths \cup {"./output/reynolds.nc"}

\* every variable of the forcing dataset has been assigned
ForcingAssembled == pc \notin {"forcing_coords", "forcing_arrays",
                               "forcing_prec", "forcing_temp"}

\* the three variables of ds at index k come from row r of the exports
\* precPath and tempPath (precipitation being row r minus row r - 1)
FromRow(ds, k, precPath, tempPath, r) ==
    /\ ds.data["prec"][k] =
          MMPerInchTenths * (Cum(precPath, r) - Cum(precPath, r - 1))
    /\ ds.data["t_min"][k] = RawTMin(tempPath, r)
    /\ ds.data["t_max"][k] = RawTMax(tempPath, r)

\* C17 as stated: at every index the three variables come from one raw row
\* position, k+1 in the forcing dataset and N-L+k in the state dataset.
C17_Original ==
    /\ ForcingAssembled =>
         \A k \in 1 .. Len(met_data.coords.time) :
            FromRow(met_data, k, PrecPath2010, TempPath2010, k + 1)
    /\ StateAssembled =>
         \E N \in {csv[PrecPath2009].rows, csv[TempPath2009].rows} :
            \A k \in 1 .. SpinupRows :
               FromRow(state, k, PrecPath2009, TempPath2009,
                       N - SpinupRows + k)

\* C17: each variable is taken from its own file by position.  In the forcing
\* dataset index k holds row k+1 of a file that has one row more than the
\* time axis (precipitation being row k+1 minus row k), so the three
\* variables share the row position when both files have that length; t_min
\* and t_max always share it.  In the state dataset index k holds row
\* N_v-L+k of the variable's own file of N_v > L rows, so prec and the
\* temperatures share the row position when the two files have the same
\* number of rows, and are NT-NP rows apart otherwise.
C17_RowAlignment ==
    /\ ForcingAssembled =>
         LET T  == Len(met_data.coords.time)
             NP == csv[PrecPath2010].rows
             NT == csv[TempPath2010].rows
         IN
         /\ NP = T + 1 =>
              \A k \in 1 .. T :
                 met_data.data["prec"][k] = MMPerInchTenths *
                    (Cum(PrecPath2010, k + 1) - Cum(PrecPath2010, k))
         /\ NT \in {2, T + 1}
         /\ \A k \in 1 .. T :
              LET r == IF NT = T + 1 THEN k + 1 ELSE 2 IN
              /\ met_data.data["t_min"][k] = RawTMin(TempPath2010, r)
              /\ met_data.data["t_max"][k] = RawTMax(TempPath2010, r)
         /\ (NP = T + 1 /\ NT = T + 1) =>
              \A k \in 1 .. T :
                 FromRow(met_data, k, PrecPath2010, TempPath2010, k + 1)
    /\ StateAssembled =>
         LET L  == SpinupRows
             NP == csv[PrecPath2009].rows
             NT == csv[TempPath2009].rows
         IN
         /\ NP > L =>
              \A k \in 1 .. L :
                 state.data["prec"][k] = MMPerInchTenths *
                    (Cum(PrecPath2009, NP - L + k)
                     - Cum(PrecPath2009, NP - L + k - 1))
         /\ NT > L =>
              \A k \in 1 .. L :
                 /\ state.data["t_min"][k] = RawTMin(TempPath2009, NT - L + k)
                 /\ state.data["t_max"][k] = RawTMax(TempPath2009, NT - L + k)
         /\ (NP = NT /\ NP > L) =>
              \A k \in 1 .. L :
                 FromRow(state, k, PrecPath2009, TempPath2009, NP - L + k)

C17_Witness ==
    /\ StateAssembled
    /\ csv[PrecPath2009].rows = 91
    /\ csv[TempPath2009].rows = 92
    /\ csv[TempPath2009].rate = 1
    /\ state.data["prec"][1] =
          MMPerInchTenths * (Cum(PrecPath2009, 2) - Cum(PrecPath2009, 1))
    /\ state.data["t_min"][1] = RawTMin(TempPath2009, 3)
    /\ state.data["t_min"][1] # RawTMin(TempPath2009, 2)

----------------------------------------------------------------------------
(* What the properties of the scripting notebook read off a state *)

\* the value a stored variable e gives when read with the files as in disk
Resolve(e, disk) == IF e.lazy THEN disk[e.file][e.name] ELSE e.value

\* the entries of the configuration the sweeps never assign
BaseKeys == {"time_step", "start", "stop", "forcing", "domain", "state",
             "forcing_fmt", "out_dir", "output_prefix", "scheduler"}

\* e is the variable name of the output of a run on the input files as
\* delivered, with a configuration that has the entries swept and agrees
\* with params on the entries the sweeps never assign
FromRun(e, name, swept) ==
    /\ e.name = name
    /\ DOMAIN e.config = BaseKeys \cup DOMAIN swept
    /\ \A k \in BaseKeys : e.config[k] = params[k]
    /\ \A k \in DOMAIN swept : e.config[k] = swept[k]
    /\ DOMAIN e.inputs = {GreenForcing, GreenDomain, GreenState}
    /\ \A q \in DOMAIN e.inputs : e.inputs[q] = nc[q]

\* the elements of a list
Elements(list) == {list[i] : i \in 1 .. Len(list)}

LwSteps == {"lw_set", "lw_construct", "lw_run", "lw_load", "lw_store"}
SwSteps == {"sw_set", "sw_construct", "sw_run", "sw_load", "sw_store"}
AfterSw == {"reload", "mapping", "sweep_done"}

\* C18: every entry sw_vals[spt][rs] is the shortwave output of the run
\* configured with sw_prec_thresh = spt, rain_scalar = rs and lw_type =
\* 'prata'; once the nested loop has finished sw_vals holds an entry for each
\* of the 9 pairs of spt_vals x rs_vals and no other, so the lookups of
\* param_map succeed; and no entry changes when a later run overwrites the
\* output file all runs share.
C18_SensitivitySweep ==
    /\ [](/\ \A a \in DOMAIN sw_vals : \A b \in DOMAIN sw_vals[a] :
               FromRun(Resolve(sw_vals[a][b], nc), "shortwave",
                       [lw_type |-> "prata", sw_prec_thresh |-> a,
                        rain_scalar |-> b])
          /\ pc \in AfterSw =>
               /\ DOMAIN sw_vals = Elements(spt_vals)
               /\ \A a \in DOMAIN sw_vals :
                     DOMAIN sw_vals[a] = Elements(rs_vals)
               /\ Cardinality({<<a, b>> \in Elements(spt_vals)
                                  \X Elements(rs_vals) :
                                  b \in DOMAIN sw_vals[a]}) = 9
               /\ err = "")
    /\ [][\A a \in DOMAIN sw_vals : \A b \in DOMAIN sw_vals[a] :
             /\ a \in DOMAIN sw_vals'
             /\ b \in DOMAIN sw_vals'[a]
             /\ Resolve(sw_vals'[a][b], nc') = Resolve(sw_vals[a][b], nc)]_vars

C18_Witness ==
    /\ pc = "sweep_done"
    /\ Resolve(sw_vals[0][60], nc).config["rain_scalar"] = 60
    /\ Resolve(sw_vals[24][75], nc).config["sw_prec_thresh"] = 24
    /\ Resolve(sw_vals[60][90], nc).config["lw_type"] = "prata"
    /\ nc[GreenOutput]["shortwave"].config["rain_scalar"] = 90
    /\ nc[GreenOutput]["shortwave"].config["sw_prec_thresh"] = 60

\* C19: every entry lw_vals[lw] is the longwave output of the run configured
\* with lw_type = lw.lower() and otherwise the params record as built; while
\* the loop runs lw_vals holds the names already done, and once it has
\* finished exactly the 6 names of lw_types; and no entry changes when a
\* later run overwrites the output file all runs share.
C19_LongwaveSweep ==
    /\ [](/\ \A name \in DOMAIN lw_vals :
               FromRun(Resolve(lw_vals[name], nc), "longwave",
                       [lw_type |-> Lower(name)])
          /\ pc \in LwSteps =>
               DOMAIN lw_vals = {lw_types[i] : i \in 1 .. lw - 1}
          /\ pc \in {"sw_begin"} \cup SwSteps \cup AfterSw =>
               /\ DOMAIN lw_vals = Elements(lw_types)
               /\ Cardinality(DOMAIN lw_vals) = 6)
    /\ [][\A name \in DOMAIN lw_vals :
             /\ name \in DOMAIN lw_vals'
             /\ Resolve(lw_vals'[name], nc') = Resolve(lw_vals[name], nc)]_vars

C19_Witness ==
    /\ pc = "sweep_done"
    /\ Cardinality(DOMAIN lw_vals) = 6
    /\ Resolve(lw_vals["TVA"], nc).config["lw_type"] = "tva"
    /\ Resolve(lw_vals["Idso"], nc).config["lw_type"] = "idso"
    /\ nc[GreenOutput]["longwave"].config["lw_type"] = "prata"

====
